---- MODULE Spec2Model ----
(***************************************************************************)
(* Quantized points (QPoint2d/3d), quantization parameters (QParams2d/3d)  *)
(* and quantized point lists (QPoint2dList/3dList).                        *)
(*                                                                         *)
(* Numbers: a finite double is modelled by the exact rational <<n, d>>     *)
(* (d > 0, lowest terms).  Every operation of the code maps finite         *)
(* numbers to finite numbers (the two divisions are guarded by a test for  *)
(* zero), so the domain is closed.  The 2D and 3D classes are the same     *)
(* code over 2 and 3 axes; the model takes the number of axes as dim.      *)
(***************************************************************************)
EXTENDS Integers, Sequences, FiniteSets

VARIABLES
  assertionsEnabled,  \* whether assert() throws (debug) or is a no-op (release)
  dim,                \* 2: QPoint2d/QParams2d/QPoint2dList, 3: the 3D classes
  qpts,               \* heap of QPoint objects: id 0 is the caller's qpt
  list,               \* QPointList._list: sequence of QPoint object ids
  recs,               \* heap of QParams objects: id 0 is the caller's record
  params,             \* QPointList.params: id of the list's QParams object
  call,               \* the last operation called, its arguments and outcome
  ret                 \* what the last operation returned

vars == <<assertionsEnabled, dim, qpts, list, recs, params, call, ret>>

(***************************************************************************)
(* Bounds                                                                  *)
(***************************************************************************)
MaxLen == 2

(***************************************************************************)
(* Rational arithmetic                                                     *)
(***************************************************************************)
Abs(i) == IF i < 0 THEN -i ELSE i

RECURSIVE GCD(_, _)
GCD(a, b) == IF b = 0 THEN a ELSE GCD(b, a % b)

Norm(n, d) ==
  LET g == GCD(Abs(n), d) IN <<n \div g, d \div g>>

Rat(i) == <<i, 1>>
Zero == Rat(0)
Half == <<1, 2>>

Neg(a) == <<-a[1], a[2]>>
Plus(a, b) ==
  IF a[2] = b[2] /\ a[2] = 1 THEN <<a[1] + b[1], 1>>
  ELSE LET g == GCD(a[2], b[2])
       IN  Norm(a[1] * (b[2] \div g) + b[1] * (a[2] \div g), (a[2] \div g) * b[2])
Minus(a, b) == Plus(a, Neg(b))
Times(a, b) ==
  IF a[1] = 0 \/ b[1] = 0 THEN Zero
  ELSE LET g1 == IF b[2] = 1 THEN 1 ELSE GCD(Abs(a[1]), b[2])
           g2 == IF a[2] = 1 THEN 1 ELSE GCD(Abs(b[1]), a[2])
       IN  <<(a[1] \div g1) * (b[1] \div g2), (a[2] \div g2) * (b[2] \div g1)>>
Recip(a) == IF a[1] < 0 THEN <<-a[2], -a[1]>> ELSE <<a[2], a[1]>>
Over(a, b) == Times(a, Recip(b))
Less(a, b) ==
  IF a[2] = b[2] THEN a[1] < b[1]
  ELSE LET g == GCD(a[2], b[2])
       IN  a[1] * (b[2] \div g) < b[1] * (a[2] \div g)
Leq(a, b) == ~Less(b, a)
MathMin(a, b) == IF Less(b, a) THEN b ELSE a
MathMax(a, b) == IF Less(a, b) THEN b ELSE a
MathFloor(a) == Rat(a[1] \div a[2])
AbsR(a) == <<Abs(a[1]), a[2]>>
IsInteger(a) == a[2] = 1

(***************************************************************************)
(* namespace Quantization                                                  *)
(***************************************************************************)
rangeScale == 65535

\* variant: the quotient taken the other way round
computeScale_inverted(extent) ==
  IF extent = Zero THEN extent ELSE Over(extent, Rat(rangeScale))

computeScale(extent) ==
  IF extent = Zero THEN extent ELSE Over(Rat(rangeScale), extent)

\* variant: the upper bound is rangeScale itself
isInRange_closed(qpos) == Leq(Zero, qpos) /\ Leq(qpos, Rat(rangeScale))

isInRange(qpos) == Leq(Zero, qpos) /\ Less(qpos, Plus(Rat(rangeScale), Rat(1)))

\* variant: the difference taken the other way round
quantize_reversed(pos, origin, scale) ==
  MathFloor(MathMax(Zero, MathMin(Rat(rangeScale),
                                  Plus(Half, Times(Minus(origin, pos), scale)))))

\* variant: no saturation at rangeScale
quantize_unclamped(pos, origin, scale) ==
  MathFloor(MathMax(Zero, Plus(Half, Times(Minus(pos, origin), scale))))

\* variant: no 0.5 bias, so truncation instead of rounding
quantize_unbiased(pos, origin, scale) ==
  MathFloor(MathMax(Zero, MathMin(Rat(rangeScale), Times(Minus(pos, origin), scale))))

quantize(pos, origin, scale) ==
  MathFloor(MathMax(Zero, MathMin(Rat(rangeScale),
                                  Plus(Half, Times(Minus(pos, origin), scale)))))

isQuantizable(pos, origin, scale) == isInRange(quantize(pos, origin, scale))

\* variant: dequantization to the centre of the grid cell
unquantize_cellCentre(qpos, origin, scale) ==
  IF scale = Zero THEN origin ELSE Plus(origin, Over(Plus(qpos, Half), scale))

\* variant: a zero scale gives 0, not the origin
unquantize_zero(qpos, origin, scale) ==
  IF scale = Zero THEN Zero ELSE Plus(origin, Over(qpos, scale))

\* variant: the origin is not added back
unquantize_noOrigin(qpos, origin, scale) ==
  IF scale = Zero THEN origin ELSE Over(qpos, scale)

unquantize(qpos, origin, scale) ==
  IF scale = Zero THEN origin ELSE Plus(origin, Over(qpos, scale))

\* variant: the range is tested, the integrality is not
isQuantized_inRange(qpos) == isInRange(qpos)

isQuantized(qpos) == isInRange(qpos) /\ qpos = MathFloor(qpos)

(***************************************************************************)
(* assert() of @bentley/bentleyjs-core: throws when the condition is false *)
(* and assertions are enabled, does nothing otherwise.                     *)
(***************************************************************************)
assertThrows(condition) == assertionsEnabled /\ ~condition

(***************************************************************************)
(* Values.  A point (Point2d/3d, and the components of a QPoint) is a      *)
(* tuple of dim numbers; a QParams is [origin, scale]; a Range is          *)
(* [low, high, isNull].                                                    *)
(***************************************************************************)
Axes == 1..dim
V(x, y, z) == IF dim = 3 THEN <<Rat(x), Rat(y), Rat(z)>> ELSE <<Rat(x), Rat(y)>>
ZeroPoint == [a \in Axes |-> Zero]
RangeOf(s) == {s[i] : i \in DOMAIN s}

(***************************************************************************)
(* class QParams2d / QParams3d                                             *)
(***************************************************************************)
QParams_setFrom(o, s) == [origin |-> o, scale |-> s]

QParams_new == QParams_setFrom(ZeroPoint, ZeroPoint)

QParams_copyFrom(this, src) == QParams_setFrom(src.origin, src.scale)

QParams_clone(this) == QParams_copyFrom(QParams_new, this)

\* variant: the extent is taken as a magnitude, as if the bounds were ordered
QParams_setFromRange_ordered(this, range) ==
  IF ~range.isNull
    THEN QParams_setFrom(range.low,
           [a \in Axes |-> computeScale(AbsR(Minus(range.high[a], range.low[a])))])
    ELSE [origin |-> ZeroPoint, scale |-> ZeroPoint]

QParams_setFromRange(this, range) ==
  IF ~range.isNull
    THEN QParams_setFrom(range.low,
           [a \in Axes |-> computeScale(Minus(range.high[a], range.low[a]))])
    ELSE [origin |-> ZeroPoint, scale |-> ZeroPoint]

QParams_fromRange(range) == QParams_setFromRange(QParams_new, range)

\* Range2d.createArray / Range3d.createArray of geometry-core: the smallest
\* range that holds the points, not null when there is a point
Range_createArray(pts) ==
  [low    |-> [a \in Axes |-> CHOOSE v \in {p[a] : p \in pts} :
                                \A w \in {p[a] : p \in pts} : Leq(v, w)],
   high   |-> [a \in Axes |-> CHOOSE v \in {p[a] : p \in pts} :
                                \A w \in {p[a] : p \in pts} : Leq(w, v)],
   isNull |-> pts = {}]

\* variant: the unit range in place of the symmetric one
QParams_fromNormalizedRange_unit ==
  QParams_fromRange(Range_createArray({V(0, 0, 0), V(1, 1, 1)}))

QParams_fromNormalizedRange ==
  QParams_fromRange(Range_createArray({V(-1, -1, -1), V(1, 1, 1)}))

QParams_fromZeroToOne ==
  QParams_fromRange(Range_createArray({V(0, 0, 0), V(1, 1, 1)}))

(***************************************************************************)
(* class QPoint2d / QPoint3d.  A mutator works on st = [p, threw]: the     *)
(* components of the object and whether an assertion has thrown; once it   *)
(* has, the rest of the call is skipped.                                   *)
(***************************************************************************)
QPoint_new == ZeroPoint

\* variant: a setter without its assertion
QPoint_set_unchecked(st, a, v) ==
  IF st.threw THEN st ELSE [st EXCEPT !.p[a] = v]

QPoint_set(st, a, v) ==
  IF st.threw THEN st
  ELSE IF assertThrows(isQuantized(v)) THEN [st EXCEPT !.threw = TRUE]
  ELSE [st EXCEPT !.p[a] = v]

RECURSIVE QPoint_assign(_, _, _)
QPoint_assign(st, vs, a) ==
  IF a > dim THEN st ELSE QPoint_assign(QPoint_set(st, a, vs[a]), vs, a + 1)

QPoint_init(p, pos, prm) ==
  QPoint_assign([p |-> p, threw |-> FALSE],
                [a \in Axes |-> quantize(pos[a], prm.origin[a], prm.scale[a])], 1)

QPoint_create(pos, prm) == QPoint_init(QPoint_new, pos, prm)

QPoint_copyFrom(p, src) == QPoint_assign([p |-> p, threw |-> FALSE], src, 1)

QPoint_clone(p) == QPoint_copyFrom(QPoint_new, p)

\* variant: every component validated before any is assigned
QPoint_setFromScalars_atomic(p, vs) ==
  IF \E a \in Axes : assertThrows(isQuantized(vs[a]))
    THEN [p |-> p, threw |-> TRUE]
    ELSE [p |-> vs, threw |-> FALSE]

QPoint_setFromScalars(p, vs) == QPoint_assign([p |-> p, threw |-> FALSE], vs, 1)

QPoint_fromScalars(vs) == QPoint_setFromScalars(QPoint_new, vs)

\* variant: every axis dequantized with the origin and scale of x
QPoint_unquantize_xOnly(p, prm) ==
  [a \in Axes |-> unquantize(p[a], prm.origin[1], prm.scale[1])]

QPoint_unquantize(p, prm) ==
  [a \in Axes |-> unquantize(p[a], prm.origin[a], prm.scale[a])]

\* the optional out argument: a point, or Undefined when it is left out.
\* ref tells which object holds the result: the caller's out or a new one
Undefined == <<>>
OutOrNew(out) ==
  IF Undefined # out THEN [ref |-> "out", pt |-> out]
  ELSE [ref |-> "new", pt |-> ZeroPoint]

QPoint_unquantizeInto(p, prm, out) ==
  [ref |-> OutOrNew(out).ref, pt |-> QPoint_unquantize(p, prm)]

(***************************************************************************)
(* class QPoint2dList / QPoint3dList.  The list holds references: l is a   *)
(* sequence of ids into the heap h of QPoint objects, and pid is the id of *)
(* its QParams object in the heap R of records.                            *)
(***************************************************************************)
PointIds == 0..MaxLen
NewId(l) == CHOOSE i \in 1..MaxLen : i \notin RangeOf(l) /\ \A j \in 1..(i - 1) : j \in RangeOf(l)

\* objects no longer referenced are dropped
Collect(h, l) == [i \in PointIds |-> IF i = 0 \/ i \in RangeOf(l) THEN h[i] ELSE ZeroPoint]

\* variant: the last point is removed, not all of them
QPointList_clear_dropLast(l) == IF l = <<>> THEN l ELSE SubSeq(l, 1, Len(l) - 1)

QPointList_clear(l) == <<>>

\* variant: the list is emptied but the argument is not adopted
QPointList_reset_keepRecord(l, R, pid, arg) ==
  [l |-> QPointList_clear(l), R |-> R]

\* variant: the argument is adopted but the points are kept
QPointList_reset_keepPoints(l, R, pid, arg) ==
  [l |-> l, R |-> [R EXCEPT ![pid] = QParams_copyFrom(R[pid], R[arg])]]

QPointList_reset(l, R, pid, arg) ==
  [l |-> QPointList_clear(l), R |-> [R EXCEPT ![pid] = QParams_copyFrom(R[pid], R[arg])]]

\* variant: the new point goes to the front of the list
QPointList_add_front(h, l, pt, prm) ==
  LET c == QPoint_create(pt, prm)
      n == NewId(l)
  IN  IF c.threw THEN [h |-> h, l |-> l, threw |-> TRUE]
      ELSE [h |-> [h EXCEPT ![n] = c.p], l |-> <<n>> \o l, threw |-> FALSE]

QPointList_add(h, l, pt, prm) ==
  LET c == QPoint_create(pt, prm)
      n == NewId(l)
  IN  IF c.threw THEN [h |-> h, l |-> l, threw |-> TRUE]
      ELSE [h |-> [h EXCEPT ![n] = c.p], l |-> Append(l, n), threw |-> FALSE]

\* variant: the list stores the caller's object itself, not a clone
QPointList_push_alias(h, l, qid) ==
  [h |-> h, l |-> Append(l, qid), threw |-> FALSE]

QPointList_push(h, l, qid) ==
  LET c == QPoint_clone(h[qid])
      n == NewId(l)
  IN  IF c.threw THEN [h |-> h, l |-> l, threw |-> TRUE]
      ELSE [h |-> [h EXCEPT ![n] = c.p], l |-> Append(l, n), threw |-> FALSE]

QPointList_length(l) == Len(l)

\* this._list[index]: the element, or nothing (undefined) when index is not
\* one of 0..length-1
ArrayAt(l, index) ==
  IF index \in 0..(Len(l) - 1) THEN <<l[index + 1]>> ELSE <<>>

\* a call of a method on undefined throws a TypeError
TypeError == [threw |-> TRUE, ref |-> "TypeError", pt |-> ZeroPoint]

\* variant: the stored point is never read
QPointList_unquantize_skip(h, l, R, pid, index, out) ==
  [threw |-> FALSE, ref |-> OutOrNew(out).ref, pt |-> OutOrNew(out).pt]

\* variant: out of bounds, a new zero point is returned even when out is given
QPointList_unquantize_newOut(h, l, R, pid, index, out) ==
  IF assertThrows(index < QPointList_length(l))
    THEN [threw |-> TRUE, ref |-> "none", pt |-> ZeroPoint]
  ELSE IF index < QPointList_length(l)
    THEN IF ArrayAt(l, index) = <<>> THEN TypeError
         ELSE [threw |-> FALSE, ref |-> OutOrNew(out).ref,
               pt |-> QPoint_unquantizeInto(h[ArrayAt(l, index)[1]], R[pid], out).pt]
    ELSE [threw |-> FALSE, ref |-> "new", pt |-> ZeroPoint]

\* indices are 0-based as in the source; the sequence l is 1-based
QPointList_unquantize(h, l, R, pid, index, out) ==
  IF assertThrows(index < QPointList_length(l))
    THEN [threw |-> TRUE, ref |-> "none", pt |-> ZeroPoint]
  ELSE IF index < QPointList_length(l)
    THEN IF ArrayAt(l, index) = <<>> THEN TypeError
         ELSE [threw |-> FALSE,
               ref   |-> QPoint_unquantizeInto(h[ArrayAt(l, index)[1]], R[pid], out).ref,
               pt    |-> QPoint_unquantizeInto(h[ArrayAt(l, index)[1]], R[pid], out).pt]
    ELSE [threw |-> FALSE, ref |-> OutOrNew(out).ref, pt |-> OutOrNew(out).pt]

RECURSIVE QPointList_requantizeLoop(_, _, _, _, _, _)
QPointList_requantizeLoop(h, l, R, pid, arg, i) ==
  IF ~(i < QPointList_length(l)) THEN [h |-> h, threw |-> FALSE]
  ELSE LET u  == QPointList_unquantize(h, l, R, pid, i, Undefined)
           st == QPoint_init(h[l[i + 1]], u.pt, R[arg])
       IN  IF u.threw THEN [h |-> h, threw |-> TRUE]
           ELSE IF st.threw THEN [h |-> [h EXCEPT ![l[i + 1]] = st.p], threw |-> TRUE]
           ELSE QPointList_requantizeLoop([h EXCEPT ![l[i + 1]] = st.p], l, R, pid, arg, i + 1)

\* variant: the new record is adopted before the loop runs
QPointList_requantize_adoptFirst(h, l, R, pid, arg) ==
  LET R1   == [R EXCEPT ![pid] = QParams_copyFrom(R[pid], R[arg])]
      loop == QPointList_requantizeLoop(h, l, R1, pid, arg, 0)
  IN  [h |-> loop.h, R |-> R1, threw |-> loop.threw]

QPointList_requantize(h, l, R, pid, arg) ==
  LET loop == QPointList_requantizeLoop(h, l, R, pid, arg, 0)
  IN  IF loop.threw THEN [h |-> loop.h, R |-> R, threw |-> TRUE]
      ELSE [h |-> loop.h, R |-> [R EXCEPT ![pid] = QParams_copyFrom(R[pid], R[arg])],
            threw |-> FALSE]

\* the store into a Uint16Array element: truncate, then modulo 2^16
ToUint16(v) ==
  LET t == IF v[1] < 0 THEN -((-v[1]) \div v[2]) ELSE v[1] \div v[2]
  IN  t % 65536

RECURSIVE QPointList_fill(_, _, _, _)
QPointList_fill(array, h, l, i) ==
  IF ~(i < QPointList_length(l)) THEN array
  ELSE LET pt == h[l[i + 1]]
       IN  QPointList_fill(
             [j \in DOMAIN array |->
                IF j \in {i * dim + (a - 1) : a \in Axes}
                  THEN ToUint16(pt[j - i * dim + 1]) ELSE array[j]],
             h, l, i + 1)

\* variant: a planar layout (all x, then all y, ...) instead of an interleaved one
QPointList_toTypedArray_planar(h, l) ==
  [j \in 0..(QPointList_length(l) * dim - 1) |->
     ToUint16(h[l[(j % QPointList_length(l)) + 1]][(j \div QPointList_length(l)) + 1])]

QPointList_toTypedArray(h, l) ==
  QPointList_fill([j \in 0..(QPointList_length(l) * dim - 1) |-> 0], h, l, 0)

(***************************************************************************)
(* Inputs                                                                  *)
(***************************************************************************)
Range(lo, hi, null) == [low |-> lo, high |-> hi, isNull |-> null]

RangeA == Range(V(0, 0, 0), V(10, 10, 10), FALSE)    \* scale 6553.5 on every axis
RangeB == Range(V(1, 1, 1), V(1, 5, 9), FALSE)       \* zero extent on x
RangeC == Range(V(0, 100, 100), V(100, 0, 0), FALSE) \* [0,100] on x, high < low on y, z
RangeN == Range(V(1, 5, 9), V(1, 1, 1), TRUE)        \* flagged null, zero extent on x

RangeO == Range(V(0, 0, 0), V(0, 0, 0), FALSE)      \* the single point at the origin
Ranges == {RangeA, RangeB, RangeC, RangeN}

Points == { V(5, 5, 5), V(150, -50, -50) }

Scalars ==
  { V(7, 65535, 65535), V(3, 65536, 4) }

Values == {Rat(65535), Rat(65536)}

PointRanges == Ranges \cup {RangeO}
CallerRanges == {RangeB, RangeC}
CallerScalars ==
  { V(7, 65535, 65535),
    IF dim = 3 THEN <<Rat(3), Rat(4), Half>> ELSE <<Rat(3), Half>> }
CallerValues == {Rat(65535), Rat(65536), Half, Rat(-1)}

Indexes == 0..MaxLen
NegIndexes == {-1}
Outs == {Undefined, V(9, 9, 9)}

Probes == {Zero, Half, Rat(65535), <<131071, 2>>, Rat(65536), Rat(-1)}
NoRet == <<>>
Call(op, threw) == [op |-> op, threw |-> threw]

(***************************************************************************)
(* Initial state: a new QPoint and a new QParams held by the caller, and a *)
(* list constructed from a record built from a range.                      *)
(***************************************************************************)
\* variant: the constructor keeps the reference it is given
QPointList_newParams_alias(arg) == arg

\* the object the constructor binds to this.params: the clone (id 1)
QPointList_newParams(arg) == 1

QPointList_new(R, arg) == [R EXCEPT ![1] = QParams_clone(R[arg])]

Init ==
  /\ assertionsEnabled \in BOOLEAN
  /\ dim \in {2, 3}
  /\ qpts = [i \in PointIds |-> QPoint_new]
  /\ list = <<>>
  /\ \E rg \in Ranges :
       recs = QPointList_new([i \in {0, 1} |-> QParams_fromRange(rg)], 0)
  /\ params = QPointList_newParams(0)
  /\ call = Call("new", FALSE)
  /\ ret = NoRet

(***************************************************************************)
(* Operations on the list                                                  *)
(***************************************************************************)
Clear ==
  /\ list' = QPointList_clear(list)
  /\ qpts' = Collect(qpts, list')
  /\ call' = Call("clear", FALSE)
  /\ ret' = NoRet
  /\ UNCHANGED <<assertionsEnabled, dim, recs, params>>

Add(pt) ==
  /\ Len(list) < MaxLen
  /\ LET r == QPointList_add(qpts, list, pt, recs[params])
     IN  /\ qpts' = r.h
         /\ list' = r.l
         /\ call' = Call("add", r.threw)
  /\ ret' = NoRet
  /\ UNCHANGED <<assertionsEnabled, dim, recs, params>>

ToTypedArray ==
  /\ ret' = QPointList_toTypedArray(qpts, list)
  /\ call' = Call("toTypedArray", FALSE)
  /\ UNCHANGED <<assertionsEnabled, dim, qpts, list, recs, params>>

ListUnquantize(index, out) ==
  LET r == QPointList_unquantize(qpts, list, recs, params, index, out)
  IN  /\ ret' = IF r.threw /\ r.ref = "none" THEN NoRet ELSE [ref |-> r.ref, pt |-> r.pt]
      /\ call' = Call("unquantize", r.threw)
      /\ UNCHANGED <<assertionsEnabled, dim, qpts, list, recs, params>>

(***************************************************************************)
(* List operations whose argument is an object the caller keeps: its       *)
(* QPoint (id 0) or its QParams (id 0), or the list's own params.          *)
(***************************************************************************)
New ==
  /\ list' = <<>>
  /\ recs' = QPointList_new(recs, 0)
  /\ params' = QPointList_newParams(0)
  /\ qpts' = Collect(qpts, <<>>)
  /\ call' = Call("new", FALSE)
  /\ ret' = NoRet
  /\ UNCHANGED <<assertionsEnabled, dim>>

Reset(arg) ==
  LET r == QPointList_reset(list, recs, params, arg)
  IN  /\ list' = r.l
      /\ recs' = r.R
      /\ qpts' = Collect(qpts, list')
      /\ call' = Call("reset", FALSE)
      /\ ret' = NoRet
      /\ UNCHANGED <<assertionsEnabled, dim, params>>

Push ==
  /\ Len(list) < MaxLen
  /\ LET r == QPointList_push(qpts, list, 0)
     IN  /\ qpts' = r.h
         /\ list' = r.l
         /\ call' = Call("push", r.threw)
  /\ ret' = NoRet
  /\ UNCHANGED <<assertionsEnabled, dim, recs, params>>

Requantize(arg) ==
  LET r == QPointList_requantize(qpts, list, recs, params, arg)
  IN  /\ qpts' = r.h
      /\ recs' = r.R
      /\ call' = Call("requantize", r.threw)
      /\ ret' = NoRet
      /\ UNCHANGED <<assertionsEnabled, dim, list, params>>

(***************************************************************************)
(* List operations whose argument is a temporary: built for the call from  *)
(* a range or from scalars, and dropped when the call returns.             *)
(***************************************************************************)
Temp(R, rg) == [R EXCEPT ![0] = QParams_fromRange(rg)]
Drop(R) == [R EXCEPT ![0] = QParams_new]

NewFromRange(rg) ==
  /\ list' = <<>>
  /\ recs' = Drop(QPointList_new(Temp(recs, rg), 0))
  /\ params' = QPointList_newParams(0)
  /\ qpts' = Collect(qpts, <<>>)
  /\ call' = Call("new", FALSE)
  /\ ret' = NoRet
  /\ UNCHANGED <<assertionsEnabled, dim>>

ResetFromRange(rg) ==
  LET r == QPointList_reset(list, Temp(recs, rg), params, 0)
  IN  /\ list' = r.l
      /\ recs' = Drop(r.R)
      /\ qpts' = Collect(qpts, list')
      /\ call' = Call("reset", FALSE)
      /\ ret' = NoRet
      /\ UNCHANGED <<assertionsEnabled, dim, params>>

RequantizeFromRange(rg) ==
  LET r == QPointList_requantize(qpts, list, Temp(recs, rg), params, 0)
  IN  /\ qpts' = r.h
      /\ recs' = Drop(r.R)
      /\ call' = Call("requantize", r.threw)
      /\ ret' = NoRet
      /\ UNCHANGED <<assertionsEnabled, dim, list, params>>

PushFromScalars(vs) ==
  /\ Len(list) < MaxLen
  /\ LET q == QPoint_fromScalars(vs)
         r == QPointList_push([qpts EXCEPT ![0] = q.p], list, 0)
     IN  IF q.threw
           THEN /\ call' = Call("fromScalars", TRUE)
                /\ UNCHANGED <<qpts, list>>
           ELSE /\ qpts' = [r.h EXCEPT ![0] = qpts[0]]
                /\ list' = r.l
                /\ call' = Call("push", r.threw)
  /\ ret' = NoRet
  /\ UNCHANGED <<assertionsEnabled, dim, recs, params>>

\* the caller builds a point from scalars, sets one component, and pushes it
PushAdjusted(vs, a, v) ==
  /\ Len(list) < MaxLen
  /\ LET q == QPoint_set(QPoint_fromScalars(vs), a, v)
         r == QPointList_push([qpts EXCEPT ![0] = q.p], list, 0)
     IN  IF q.threw
           THEN /\ call' = Call("set", TRUE)
                /\ UNCHANGED <<qpts, list>>
           ELSE /\ qpts' = [r.h EXCEPT ![0] = qpts[0]]
                /\ list' = r.l
                /\ call' = Call("push", r.threw)
  /\ ret' = NoRet
  /\ UNCHANGED <<assertionsEnabled, dim, recs, params>>

(***************************************************************************)
(* Operations on the caller's QParams (id 0) and QPoint (id 0)             *)
(***************************************************************************)
SetFromRange(rg) ==
  /\ recs' = [recs EXCEPT ![0] = QParams_setFromRange(recs[0], rg)]
  /\ call' = Call("setFromRange", FALSE)
  /\ ret' = NoRet
  /\ UNCHANGED <<assertionsEnabled, dim, qpts, list, params>>

FromRange(rg) ==
  /\ recs' = [recs EXCEPT ![0] = QParams_fromRange(rg)]
  /\ call' = Call("fromRange", FALSE)
  /\ ret' = NoRet
  /\ UNCHANGED <<assertionsEnabled, dim, qpts, list, params>>

\* a call of Quantization.isInRange
IsInRange(q) ==
  /\ ret' = [q |-> q, inRange |-> isInRange(q)]
  /\ call' = Call("isInRange", FALSE)
  /\ UNCHANGED <<assertionsEnabled, dim, qpts, list, recs, params>>

FromNormalizedRange ==
  /\ recs' = [recs EXCEPT ![0] = QParams_fromNormalizedRange]
  /\ call' = Call("fromNormalizedRange", FALSE)
  /\ ret' = NoRet
  /\ UNCHANGED <<assertionsEnabled, dim, qpts, list, params>>

FromZeroToOne ==
  /\ recs' = [recs EXCEPT ![0] = QParams_fromZeroToOne]
  /\ call' = Call("fromZeroToOne", FALSE)
  /\ ret' = NoRet
  /\ UNCHANGED <<assertionsEnabled, dim, qpts, list, params>>

Create(pos) ==
  LET st == QPoint_create(pos, recs[0])
  IN  /\ qpts' = IF st.threw THEN qpts ELSE [qpts EXCEPT ![0] = st.p]
      /\ call' = Call("create", st.threw)
      /\ ret' = NoRet
      /\ UNCHANGED <<assertionsEnabled, dim, list, recs, params>>

InitPoint(pos) ==
  LET st == QPoint_init(qpts[0], pos, recs[0])
  IN  /\ qpts' = [qpts EXCEPT ![0] = st.p]
      /\ call' = Call("init", st.threw)
      /\ ret' = NoRet
      /\ UNCHANGED <<assertionsEnabled, dim, list, recs, params>>

FromScalars(vs) ==
  LET st == QPoint_fromScalars(vs)
  IN  /\ qpts' = IF st.threw THEN qpts ELSE [qpts EXCEPT ![0] = st.p]
      /\ call' = Call("fromScalars", st.threw)
      /\ ret' = NoRet
      /\ UNCHANGED <<assertionsEnabled, dim, list, recs, params>>

SetFromScalars(vs) ==
  LET st == QPoint_setFromScalars(qpts[0], vs)
  IN  /\ qpts' = [qpts EXCEPT ![0] = st.p]
      /\ call' = Call("setFromScalars", st.threw)
      /\ ret' = NoRet
      /\ UNCHANGED <<assertionsEnabled, dim, list, recs, params>>

SetComponent(a, v) ==
  LET st == QPoint_set([p |-> qpts[0], threw |-> FALSE], a, v)
  IN  /\ qpts' = [qpts EXCEPT ![0] = st.p]
      /\ call' = Call("set", st.threw)
      /\ ret' = NoRet
      /\ UNCHANGED <<assertionsEnabled, dim, list, recs, params>>

\* qpt.copyFrom(QPoint.fromScalars(...)) on the caller's point
CopyFromScalars(vs) ==
  LET src == QPoint_fromScalars(vs)
      st  == QPoint_copyFrom(qpts[0], src.p)
  IN  /\ IF src.threw
           THEN /\ call' = Call("fromScalars", TRUE)
                /\ UNCHANGED qpts
           ELSE /\ qpts' = [qpts EXCEPT ![0] = st.p]
                /\ call' = Call("copyFrom", st.threw)
      /\ ret' = NoRet
      /\ UNCHANGED <<assertionsEnabled, dim, list, recs, params>>

\* qpt.unquantize(params, out) on the caller's point and record
PointUnquantize(out) ==
  /\ ret' = QPoint_unquantizeInto(qpts[0], recs[0], out)
  /\ call' = Call("qpt.unquantize", FALSE)
  /\ UNCHANGED <<assertionsEnabled, dim, qpts, list, recs, params>>

\* the caller's record copies the list's: r.copyFrom(list.params)
CopyFromList ==
  /\ recs' = [recs EXCEPT ![0] = QParams_copyFrom(recs[0], recs[params])]
  /\ call' = Call("copyFrom", FALSE)
  /\ ret' = NoRet
  /\ UNCHANGED <<assertionsEnabled, dim, qpts, list, params>>

(***************************************************************************)
(* Operations on the list's record through its public field:               *)
(* list.params.setFromRange(range), list.params.copyFrom(r)                *)
(***************************************************************************)
ParamsSetFromRange(rg) ==
  /\ recs' = [recs EXCEPT ![params] = QParams_setFromRange(recs[params], rg)]
  /\ call' = Call("params.setFromRange", FALSE)
  /\ ret' = NoRet
  /\ UNCHANGED <<assertionsEnabled, dim, qpts, list, params>>

ParamsCopyFrom ==
  /\ recs' = [recs EXCEPT ![params] = QParams_copyFrom(recs[params], recs[0])]
  /\ call' = Call("params.copyFrom", FALSE)
  /\ ret' = NoRet
  /\ UNCHANGED <<assertionsEnabled, dim, qpts, list, params>>

(***************************************************************************)
(* Spec: the list driven with temporaries.                                 *)
(* SpecCaller: the caller keeps and mutates the objects it passes.         *)
(* SpecPoint: the caller works on its QPoint and its QParams alone.        *)
(***************************************************************************)
Next ==
  \/ \E rg \in Ranges : NewFromRange(rg)
  \/ Clear
  \/ \E rg \in Ranges : ResetFromRange(rg)
  \/ \E pt \in Points : Add(pt)
  \/ \E vs \in Scalars : PushFromScalars(vs)
  \/ \E a \in Axes, v \in Values : PushAdjusted(V(7, 65535, 65535), a, v)
  \/ \E rg \in Ranges : RequantizeFromRange(rg)
  \/ ToTypedArray

Spec == Init /\ [][Next]_vars

NextCaller ==
  \/ \E rg \in CallerRanges : SetFromRange(rg)
  \/ \E vs \in CallerScalars : FromScalars(vs)
  \/ \E vs \in CallerScalars : SetFromScalars(vs)
  \/ New
  \/ Clear
  \/ \E arg \in {0, params} : Reset(arg)
  \/ Push
  \/ \E arg \in {0, params} : Requantize(arg)

SpecCaller == Init /\ [][NextCaller]_vars

NextPoint ==
  \/ \E rg \in Ranges : SetFromRange(rg)
  \/ \E pos \in Points : Create(pos)
  \/ \E pos \in Points : InitPoint(pos)
  \/ \E vs \in Scalars \cup CallerScalars : FromScalars(vs)
  \/ \E vs \in Scalars \cup CallerScalars : SetFromScalars(vs)
  \/ \E a \in Axes, v \in CallerValues : SetComponent(a, v)
  \/ \E vs \in CallerScalars : CopyFromScalars(vs)
  \/ \E out \in Outs : PointUnquantize(out)

SpecPoint == Init /\ [][NextPoint]_vars

\* SpecOwner: the caller and the list each mutate their own record
NextOwner ==
  \/ \E rg \in Ranges : SetFromRange(rg)
  \/ CopyFromList
  \/ \E rg \in CallerRanges : ParamsSetFromRange(rg)
  \/ ParamsCopyFrom
  \/ New
  \/ Reset(0)
  \/ Requantize(0)

SpecOwner == Init /\ [][NextOwner]_vars

\* SpecRead: the list is filled and read back
NextRead ==
  \/ \E rg \in Ranges : NewFromRange(rg)
  \/ Clear
  \/ \E pt \in Points : Add(pt)
  \/ \E vs \in Scalars : PushFromScalars(vs)
  \/ \E index \in Indexes \cup NegIndexes, out \in Outs : ListUnquantize(index, out)

SpecRead == Init /\ [][NextRead]_vars

\* SpecParams: the caller builds and sets its record, and numbers are tested
\* for the quantized range
NextParams ==
  \/ \E rg \in PointRanges : SetFromRange(rg)
  \/ \E rg \in PointRanges : FromRange(rg)
  \/ FromNormalizedRange
  \/ FromZeroToOne
  \/ CopyFromList
  \/ \E q \in Probes : IsInRange(q)

SpecParams == Init /\ [][NextParams]_vars

(***************************************************************************)
(* Helpers of the properties                                               *)
(***************************************************************************)
ListParams == recs[params]
Stored(i) == qpts[list[i]]
\* the non-null input ranges the list's current record is built from
RangesOfParams == {rg \in Ranges : ~rg.isNull /\ QParams_fromRange(rg) = ListParams}
\* float coordinates at hand in a state: the input points and the stored
\* points dequantized under the list's record
Positions ==
  Points \cup {QPoint_unquantize(Stored(i), ListParams) : i \in 1..Len(list)}
IsGridInteger(q) == q[2] = 1 /\ 0 <= q[1] /\ q[1] <= 65535

(***************************************************************************)
(* C1: with assertions enabled, every component of every QPoint object,    *)
(* the caller's and those stored in the list, is an integer in [0, 65535]  *)
(* in every reachable state.                                               *)
(***************************************************************************)
C1_ComponentsQuantized ==
  assertionsEnabled =>
    \A i \in PointIds : \A a \in Axes : IsGridInteger(qpts[i][a])

\* a setter has just refused a value, and the list holds a point that was
\* requantized into a record with a negative scale
C1_Witness ==
  /\ assertionsEnabled
  /\ call = Call("set", TRUE)
  /\ Len(list) = 1
  /\ \E a \in Axes : Less(ListParams.scale[a], Zero)
  /\ \E a \in Axes : Stored(1)[a] \notin {Zero, Rat(65535)}

(***************************************************************************)
(* C2: whenever the scale of an axis is positive, quantize of any finite   *)
(* position against the list's record is an integer in [0, 65535], and     *)
(* isQuantizable is true of it.                                            *)
(***************************************************************************)
C2_QuantizeInRange ==
  \A a \in Axes : \A pos \in Positions :
    Less(Zero, ListParams.scale[a]) =>
      /\ IsGridInteger(quantize(pos[a], ListParams.origin[a], ListParams.scale[a]))
      /\ isQuantizable(pos[a], ListParams.origin[a], ListParams.scale[a])

C2_Witness ==
  /\ call = Call("add", FALSE)
  /\ \E a \in Axes :
       /\ Less(Zero, ListParams.scale[a])
       /\ Stored(Len(list))[a] = Rat(65535)
       /\ \E pos \in Points :
            Less(Rat(65535), Times(Minus(pos[a], ListParams.origin[a]), ListParams.scale[a]))

(***************************************************************************)
(* C3: quantize is round-to-nearest of t = (pos - origin) * scale, a tie   *)
(* t = k + 1/2 going up to k + 1, saturated at 0 and 65535; for the range  *)
(* (0,0)..(10,10) the point (5,5) quantizes to (32768,32768).              *)
(***************************************************************************)
RoundsToNearest(t, q) ==
  IF Leq(Rat(65535), Plus(t, Half)) THEN q = Rat(65535)
  ELSE IF Less(Plus(t, Half), Rat(1)) THEN q = Zero
  ELSE /\ q[2] = 1
       /\ Leq(Minus(q, Half), t)
       /\ Less(t, Plus(q, Half))

C3_QuantizeRounds ==
  /\ \A a \in Axes : \A pos \in Positions :
       RoundsToNearest(Times(Minus(pos[a], ListParams.origin[a]), ListParams.scale[a]),
                       quantize(pos[a], ListParams.origin[a], ListParams.scale[a]))
  /\ QPoint_create(V(5, 5, 5), QParams_fromRange(RangeA)) =
       [p |-> V(32768, 32768, 32768), threw |-> FALSE]

\* an added point whose first component came from the tie 32767.5
C3_Witness ==
  /\ call = Call("add", FALSE)
  /\ ListParams = QParams_fromRange(RangeA)
  /\ Stored(Len(list)) = V(32768, 32768, 32768)
  /\ Times(Minus(Rat(5), ListParams.origin[1]), ListParams.scale[1]) = <<65535, 2>>

(***************************************************************************)
(* C4: round trip.  For the list's record built from a non-null range, on  *)
(* an axis of non-zero extent and a position within [low, high], the       *)
(* dequantized quantized position is within 1/scale of the position.       *)
(***************************************************************************)
RoundTripError(pos, origin, scale) ==
  AbsR(Minus(unquantize(quantize(pos, origin, scale), origin, scale), pos))

C4_RoundTrip ==
  \A rg \in RangesOfParams : \A a \in Axes : \A pos \in Positions :
    (/\ rg.high[a] # rg.low[a]
     /\ Leq(rg.low[a], pos[a])
     /\ Leq(pos[a], rg.high[a]))
    => Leq(RoundTripError(pos[a], ListParams.origin[a], ListParams.scale[a]),
           Recip(ListParams.scale[a]))

\* a position strictly inside the range that the grid does not hit exactly
C4_Witness ==
  /\ call = Call("add", FALSE)
  /\ \E rg \in RangesOfParams : \E a \in Axes : \E pos \in Points :
       /\ Less(rg.low[a], pos[a])
       /\ Less(pos[a], rg.high[a])
       /\ Stored(Len(list))[a] = quantize(pos[a], ListParams.origin[a], ListParams.scale[a])
       /\ RoundTripError(pos[a], ListParams.origin[a], ListParams.scale[a]) # Zero

(***************************************************************************)
(* C5 as stated: for the record built from any range, on every axis, a     *)
(* position below low quantizes to 0 and one above high to 65535.          *)
(***************************************************************************)
ClampLaw(rg, a, pos) ==
  /\ Less(pos, rg.low[a]) =>
       quantize(pos, ListParams.origin[a], ListParams.scale[a]) = Zero
  /\ Less(rg.high[a], pos) =>
       quantize(pos, ListParams.origin[a], ListParams.scale[a]) = Rat(65535)

C5_ClampLawAsStated ==
  \A rg \in Ranges : QParams_fromRange(rg) = ListParams =>
    \A a \in Axes : \A pos \in Positions : ClampLaw(rg, a, pos[a])

(***************************************************************************)
(* C5 amended: the clamp law holds on every axis with high > low of a      *)
(* record built from a non-null range; for the range [0,100], 150 gives    *)
(* 65535 and -50 gives 0.                                                  *)
(***************************************************************************)
C5_ClampLaw ==
  /\ \A rg \in RangesOfParams : \A a \in Axes : \A pos \in Positions :
       Less(rg.low[a], rg.high[a]) => ClampLaw(rg, a, pos[a])
  /\ quantize(Rat(150), Zero, computeScale(Rat(100))) = Rat(65535)
  /\ quantize(Rat(-50), Zero, computeScale(Rat(100))) = Zero

\* the list's record is built from [0,100] on x and the point (150, -50) was added
C5_Witness ==
  /\ call = Call("add", FALSE)
  /\ ListParams = QParams_fromRange(RangeC)
  /\ Stored(Len(list))[1] = Rat(65535)
  /\ \E pos \in Points : Less(RangeC.high[1], pos[1])

(***************************************************************************)
(* C6: requantize(newRecord) replaces point i, in place and in order, by   *)
(* quantize(unquantize(point i, the record held before the call),          *)
(* newRecord), keeps length and order, and leaves the list's record equal  *)
(* to newRecord.                                                           *)
(***************************************************************************)
Requantized(p, old, new) ==
  [a \in Axes |-> quantize(unquantize(p[a], old.origin[a], old.scale[a]),
                           new.origin[a], new.scale[a])]

C6_Requantize ==
  [][\A rg \in Ranges : RequantizeFromRange(rg) =>
       /\ ~call'.threw
       /\ list' = list
       /\ \A i \in 1..Len(list) :
            qpts'[list[i]] = Requantized(Stored(i), ListParams, QParams_fromRange(rg))
       /\ recs'[params'] = QParams_fromRange(rg)]_vars

\* two different stored points have just been moved to another record
C6_Witness ==
  /\ call = Call("requantize", FALSE)
  /\ Len(list) = 2
  /\ Stored(1) # Stored(2)
  /\ ListParams = QParams_fromRange(RangeC)
  /\ \E a \in Axes : Stored(1)[a] \notin {Zero, Rat(65535)}

(***************************************************************************)
(* C7 as stated: requantize with a record equal to the list's current one  *)
(* leaves every component of every point within 1 of its value before,     *)
(* and leaves length and record unchanged.                                 *)
(***************************************************************************)
WithinOne(u, v) == Leq(AbsR(Minus(u, v)), Rat(1))

C7_SameRecordAsStated ==
  [][\A rg \in Ranges :
       (RequantizeFromRange(rg) /\ QParams_fromRange(rg) = ListParams) =>
         /\ list' = list
         /\ recs'[params'] = ListParams
         /\ \A i \in 1..Len(list) : \A a \in Axes :
              WithinOne(qpts'[list[i]][a], Stored(i)[a])]_vars

(***************************************************************************)
(* C7 amended: requantize with a record equal to the list's current one    *)
(* leaves length and record unchanged, leaves every component that is an   *)
(* integer in [0, 65535] on an axis of non-zero scale within 1 of its      *)
(* value before, and sets every component on an axis of zero scale to 0.   *)
(***************************************************************************)
C7_SameRecord ==
  [][\A rg \in Ranges :
       (RequantizeFromRange(rg) /\ QParams_fromRange(rg) = ListParams) =>
         /\ list' = list
         /\ recs'[params'] = ListParams
         /\ \A i \in 1..Len(list) : \A a \in Axes :
              IF ListParams.scale[a] = Zero
                THEN qpts'[list[i]][a] = Zero
                ELSE IsGridInteger(Stored(i)[a]) =>
                       WithinOne(qpts'[list[i]][a], Stored(i)[a])]_vars

\* a list requantized under its own record that holds a pushed point with a
\* non-zero component on an axis of non-zero scale
C7_Witness ==
  /\ call = Call("requantize", FALSE)
  /\ Len(list) = 2
  /\ \E i \in 1..2 : \E a \in Axes :
       /\ ListParams.scale[a] # Zero
       /\ ListParams.origin[a] # Zero
       /\ Stored(i)[a] = Rat(65535)
       /\ Requantized(Stored(i), ListParams, ListParams) = Stored(i)

(***************************************************************************)
(* C8 as stated: toTypedArray returns length * dim elements, and elements  *)
(* i*dim .. i*dim + dim - 1 are exactly the components of point i.         *)
(***************************************************************************)
C8_TypedArrayAsStated ==
  call.op = "toTypedArray" =>
    /\ DOMAIN ret = 0..(Len(list) * dim - 1)
    /\ \A i \in 0..(Len(list) - 1) : \A a \in Axes :
         Rat(ret[i * dim + (a - 1)]) = Stored(i + 1)[a]

(***************************************************************************)
(* C8 amended: toTypedArray returns length * dim elements, and element     *)
(* i*dim + k is exactly component k of point i whenever that component is  *)
(* an integer in [0, 65535], as every component is with assertions         *)
(* enabled.                                                                *)
(***************************************************************************)
C8_TypedArray ==
  call.op = "toTypedArray" =>
    /\ DOMAIN ret = 0..(Len(list) * dim - 1)
    /\ \A i \in 0..(Len(list) - 1) : \A a \in Axes :
         (assertionsEnabled \/ IsGridInteger(Stored(i + 1)[a])) =>
           Rat(ret[i * dim + (a - 1)]) = Stored(i + 1)[a]

C8_Witness ==
  /\ call.op = "toTypedArray"
  /\ Len(list) = 2
  /\ Stored(1) # Stored(2)
  /\ \E a \in Axes : \E b \in Axes : Stored(2)[a] # Stored(2)[b]

(***************************************************************************)
(* C9: add(pt) grows the list by one, appends the point quantized under    *)
(* the list's record, and leaves the stored points and the record alone.   *)
(***************************************************************************)
C9_Add ==
  [][\A pt \in Points : Add(pt) =>
       /\ ~call'.threw
       /\ Len(list') = Len(list) + 1
       /\ qpts'[list'[Len(list')]] =
            [a \in Axes |-> quantize(pt[a], ListParams.origin[a], ListParams.scale[a])]
       /\ \A i \in 1..Len(list) : qpts'[list'[i]] = Stored(i)
       /\ recs'[params'] = ListParams]_vars

C9_Witness ==
  /\ call = Call("add", FALSE)
  /\ Len(list) = 2
  /\ Stored(1) # Stored(2)
  /\ \E a \in Axes : Stored(2)[a] \notin {Zero, Rat(65535)}

(***************************************************************************)
(* C10: push(qpt) grows the list by one and appends a new object with the  *)
(* components of qpt, whatever the list's record; the earlier points and   *)
(* the record are unchanged, and a later mutation of the caller's qpt      *)
(* leaves every stored point as it was.                                    *)
(***************************************************************************)
C10_Push ==
  [][/\ Push =>
          /\ ~call'.threw
          /\ Len(list') = Len(list) + 1
          /\ list'[Len(list')] # 0
          /\ qpts'[list'[Len(list')]] = qpts[0]
          /\ \A i \in 1..Len(list) : qpts'[list'[i]] = Stored(i)
          /\ recs' = recs /\ params' = params
     /\ \A vs \in CallerScalars : SetFromScalars(vs) =>
          /\ list' = list
          /\ \A i \in 1..Len(list) : qpts'[list[i]] = Stored(i)]_vars

\* the caller pushed its point and then overwrote it: the stored copy keeps
\* the components it was pushed with, which the list's record would reject
C10_Witness ==
  /\ call = Call("setFromScalars", FALSE)
  /\ Len(list) = 2
  /\ Stored(2) = V(7, 65535, 65535)
  /\ qpts[0] # Stored(2)
  /\ ListParams.scale[1] = Zero

(***************************************************************************)
(* C11: reset(newRecord) leaves the list empty and its record equal to     *)
(* newRecord on every origin and scale component, whatever it held.        *)
(***************************************************************************)
C11_Reset ==
  [][\A rg \in Ranges : ResetFromRange(rg) =>
       /\ Len(list') = 0
       /\ \A a \in Axes :
            /\ recs'[params'].origin[a] = QParams_fromRange(rg).origin[a]
            /\ recs'[params'].scale[a] = QParams_fromRange(rg).scale[a]]_vars

\* a list that held points under another record has just been reset to the
\* record of a non-null range
C11_Witness ==
  /\ call = Call("reset", FALSE)
  /\ Len(list) = 0
  /\ ListParams = QParams_fromRange(RangeC)

(***************************************************************************)
(* C12: clear() leaves the list empty and its record, origin and scale on  *)
(* every axis, as it was before the call.                                  *)
(***************************************************************************)
C12_Clear ==
  [][Clear =>
       /\ Len(list') = 0
       /\ params' = params
       /\ \A a \in Axes :
            /\ recs'[params'].origin[a] = ListParams.origin[a]
            /\ recs'[params'].scale[a] = ListParams.scale[a]]_vars

C12_Witness ==
  /\ call = Call("clear", FALSE)
  /\ Len(list) = 0
  /\ ListParams = QParams_fromRange(RangeB)

(***************************************************************************)
(* C13: the list's record is never the object the caller passed to the     *)
(* constructor, reset or requantize: a mutation of the caller's record     *)
(* (setFromRange, copyFrom) leaves the list's record as it was, and a      *)
(* mutation of the list's record leaves the caller's as it was.            *)
(***************************************************************************)
C13_Ownership ==
  [][/\ params' # 0
     /\ \A rg \in Ranges : SetFromRange(rg) => recs'[params'] = ListParams
     /\ CopyFromList => recs'[params'] = ListParams
     /\ \A rg \in CallerRanges : ParamsSetFromRange(rg) => recs'[0] = recs[0]
     /\ ParamsCopyFrom => recs'[0] = recs[0]]_vars

\* the list adopted the caller's record, and the caller has since changed
\* its record: the two now differ
C13_Witness ==
  /\ call = Call("setFromRange", FALSE)
  /\ recs[0] = QParams_fromRange(RangeB)
  /\ ListParams = QParams_fromRange(RangeC)

(***************************************************************************)
(* C14 as stated: a range with zero extent on an axis gives scale 0 and    *)
(* origin = low on that axis, and every stored integer and every           *)
(* quantized coordinate dequantizes to origin there.                       *)
(***************************************************************************)
Degenerate(rg, a) ==
  /\ ListParams.scale[a] = Zero
  /\ ListParams.origin[a] = rg.low[a]
  /\ \A q \in {Stored(i)[a] : i \in 1..Len(list)} \cup {Zero, Rat(7), Rat(65535)} :
       IsGridInteger(q) =>
         unquantize(q, ListParams.origin[a], ListParams.scale[a]) = ListParams.origin[a]
  /\ \A pos \in Positions :
       unquantize(quantize(pos[a], ListParams.origin[a], ListParams.scale[a]),
                  ListParams.origin[a], ListParams.scale[a]) = ListParams.origin[a]

C14_DegenerateAsStated ==
  \A rg \in Ranges : QParams_fromRange(rg) = ListParams =>
    \A a \in Axes : rg.high[a] = rg.low[a] => Degenerate(rg, a)

(***************************************************************************)
(* C14 amended: the same for a range that is not flagged null; for the     *)
(* range (1,1,1)..(1,5,9) the scale is (0, 16383.75, 8191.875), the origin *)
(* (1,1,1), and x always dequantizes to exactly 1.                         *)
(***************************************************************************)
C14_Degenerate ==
  /\ \A rg \in RangesOfParams : \A a \in Axes :
       rg.high[a] = rg.low[a] => Degenerate(rg, a)
  /\ QParams_fromRange(RangeB) =
       [origin |-> V(1, 1, 1),
        scale  |-> IF dim = 3 THEN <<Zero, <<65535, 4>>, <<65535, 8>>>>
                   ELSE <<Zero, <<65535, 4>>>>]
  /\ \A q \in {Zero, Rat(7), Rat(65535)} :
       unquantize(q, QParams_fromRange(RangeB).origin[1],
                  QParams_fromRange(RangeB).scale[1]) = Rat(1)

\* a point with x = 7 was pushed into a list whose record has zero scale on x
C14_Witness ==
  /\ call = Call("push", FALSE)
  /\ ListParams = QParams_fromRange(RangeB)
  /\ Stored(Len(list))[1] = Rat(7)
  /\ QPoint_unquantize(Stored(Len(list)), ListParams)[1] = Rat(1)

(***************************************************************************)
(* C15 as stated: setFromRange / fromRange set every origin and scale      *)
(* component to 0 if and only if the range is flagged null; otherwise, on  *)
(* each axis, origin = low and scale = 0 for a zero extent, 65535 / extent *)
(* for any other, whatever the order of the bounds.                        *)
(***************************************************************************)
AllZero(prm) == \A a \in Axes : prm.origin[a] = Zero /\ prm.scale[a] = Zero

PerAxis(prm, rg) ==
  \A a \in Axes :
    /\ prm.origin[a] = rg.low[a]
    /\ prm.scale[a] = IF rg.high[a] = rg.low[a] THEN Zero
                      ELSE Over(Rat(65535), Minus(rg.high[a], rg.low[a]))

C15_FromRangeAsStated ==
  [][\A rg \in PointRanges : (SetFromRange(rg) \/ FromRange(rg)) =>
       /\ AllZero(recs'[0]) <=> rg.isNull
       /\ ~rg.isNull => PerAxis(recs'[0], rg)]_vars

(***************************************************************************)
(* C15 amended: for a range flagged null every origin and scale component  *)
(* is 0; for any other range, on each axis, origin = low and scale = 0 for *)
(* a zero extent, 65535 / extent otherwise (so all components are 0 also   *)
(* for the non-null range low = high = 0).                                 *)
(***************************************************************************)
C15_FromRange ==
  [][\A rg \in PointRanges : (SetFromRange(rg) \/ FromRange(rg)) =>
       /\ rg.isNull => AllZero(recs'[0])
       /\ ~rg.isNull => PerAxis(recs'[0], rg)]_vars

\* a record set from a range with high < low on y: the scales differ in sign
C15_Witness ==
  /\ call = Call("setFromRange", FALSE)
  /\ Less(Zero, recs[0].scale[1])
  /\ Less(recs[0].scale[2], Zero)
  /\ recs[0].origin[2] = Rat(100)

(***************************************************************************)
(* C20: fromNormalizedRange() gives origin -1 and scale 65535/2 on every   *)
(* axis, fromZeroToOne() origin 0 and scale 65535 on every axis, whatever  *)
(* was done to the records returned before; the call touches no other      *)
(* record.                                                                 *)
(***************************************************************************)
C20_Presets ==
  [][/\ FromNormalizedRange =>
          /\ \A a \in Axes : /\ recs'[0].origin[a] = Rat(-1)
                             /\ recs'[0].scale[a] = <<65535, 2>>
          /\ recs'[params'] = ListParams
     /\ FromZeroToOne =>
          /\ \A a \in Axes : /\ recs'[0].origin[a] = Zero
                             /\ recs'[0].scale[a] = Rat(65535)
          /\ recs'[params'] = ListParams]_vars

C20_Witness ==
  /\ call = Call("fromNormalizedRange", FALSE)
  /\ recs[0] = [origin |-> V(-1, -1, -1),
                scale  |-> [a \in Axes |-> <<65535, 2>>]]
  /\ ListParams # recs[0]

(***************************************************************************)
(* C16: list unquantize(index, out) with index >= length throws when       *)
(* assertions are enabled; with assertions disabled it returns out as it   *)
(* was given, or a new zero point when none was given.  With index <       *)
(* length it returns point index dequantized under the list's record.  It  *)
(* changes neither the points nor the record.                              *)
(***************************************************************************)
C16_ListUnquantize ==
  [][\A index \in Indexes : \A out \in Outs : ListUnquantize(index, out) =>
       /\ index >= Len(list) =>
            /\ call'.threw <=> assertionsEnabled
            /\ ~assertionsEnabled =>
                 ret' = IF out # Undefined THEN [ref |-> "out", pt |-> out]
                        ELSE [ref |-> "new", pt |-> ZeroPoint]
       /\ index < Len(list) =>
            /\ ~call'.threw
            /\ ret'.pt = QPoint_unquantize(Stored(index + 1), ListParams)
       /\ qpts' = qpts /\ list' = list /\ recs' = recs /\ params' = params]_vars

\* out of bounds on a list that holds points, assertions disabled, out given
C16_Witness ==
  /\ ~assertionsEnabled
  /\ call = Call("unquantize", FALSE)
  /\ Len(list) = 1
  /\ Stored(1) # ZeroPoint
  /\ ret = [ref |-> "out", pt |-> V(9, 9, 9)]

(***************************************************************************)
(* C19: qpt.unquantize(params, out) gives, on each axis, origin + q/scale  *)
(* of the supplied record, or origin when its scale is 0; it changes       *)
(* neither the point nor the record, and the result is held by out when    *)
(* out is given, by a new point otherwise.                                 *)
(***************************************************************************)
C19_PointUnquantize ==
  [][\A out \in Outs : PointUnquantize(out) =>
       /\ \A a \in Axes :
            ret'.pt[a] = IF recs[0].scale[a] = Zero THEN recs[0].origin[a]
                         ELSE Plus(recs[0].origin[a], Over(qpts[0][a], recs[0].scale[a]))
       /\ ret'.ref = IF out = Undefined THEN "new" ELSE "out"
       /\ qpts' = qpts /\ recs' = recs]_vars

\* a point set from scalars, dequantized into out under a record with a
\* negative scale
C19_Witness ==
  /\ call = Call("qpt.unquantize", FALSE)
  /\ qpts[0] = V(7, 65535, 65535)
  /\ recs[0] = QParams_fromRange(RangeC)
  /\ ret.ref = "out"
  /\ ret.pt[2] = Zero

(***************************************************************************)
(* C17 as stated: assigning v to a component, through a setter or through *)
(* fromScalars / setFromScalars / copyFrom, throws if and only if v is not *)
(* an integer in [0, 65535], and the component then keeps its value.       *)
(***************************************************************************)
Invalid(vs) == \E a \in Axes : ~IsGridInteger(vs[a])

C17_SetterAsStated ==
  [][/\ \A a \in Axes : \A v \in CallerValues : SetComponent(a, v) =>
          /\ call'.threw <=> ~IsGridInteger(v)
          /\ call'.threw => qpts'[0][a] = qpts[0][a]
     /\ \A vs \in Scalars \cup CallerScalars : SetFromScalars(vs) =>
          /\ call'.threw <=> Invalid(vs)
          /\ \A a \in Axes : ~IsGridInteger(vs[a]) => qpts'[0][a] = qpts[0][a]]_vars

(***************************************************************************)
(* C17 amended: with assertions enabled, the assignment throws if and only *)
(* if v is not an integer in [0, 65535], and the component then keeps its  *)
(* value; with assertions disabled no assignment throws and v is stored.   *)
(***************************************************************************)
Throws(vs) == assertionsEnabled /\ Invalid(vs)

C17_Setter ==
  [][/\ \A a \in Axes : \A v \in CallerValues : SetComponent(a, v) =>
          /\ call'.threw <=> (assertionsEnabled /\ ~IsGridInteger(v))
          /\ call'.threw => qpts'[0] = qpts[0]
          /\ ~call'.threw => qpts'[0] = [qpts[0] EXCEPT ![a] = v]
     /\ \A vs \in Scalars \cup CallerScalars : SetFromScalars(vs) =>
          /\ call'.threw <=> Throws(vs)
          /\ \A a \in Axes :
               qpts'[0][a] = IF assertionsEnabled /\ \E b \in 1..a : ~IsGridInteger(vs[b])
                               THEN qpts[0][a] ELSE vs[a]
     /\ \A vs \in Scalars \cup CallerScalars : FromScalars(vs) =>
          /\ call'.threw <=> Throws(vs)
          /\ qpts'[0] = IF Throws(vs) THEN qpts[0] ELSE vs
     /\ \A vs \in CallerScalars : CopyFromScalars(vs) =>
          /\ call'.threw <=> Throws(vs)
          /\ qpts'[0] = IF Throws(vs) THEN qpts[0] ELSE vs]_vars

\* with assertions enabled a setter has just refused 1/2 on the last axis of
\* a point whose components were set before
C17_Witness ==
  /\ assertionsEnabled
  /\ call = Call("setFromScalars", TRUE)
  /\ qpts[0][1] = Rat(3)
  /\ qpts[0][dim] = Rat(65535)

(***************************************************************************)
(* C18 as stated: isInRange(q) is true exactly when 0 <= q <= 65535, for   *)
(* integers and non-integers alike.                                        *)
(***************************************************************************)
C18_IsInRangeAsStated ==
  call.op = "isInRange" =>
    (ret.inRange <=> (Leq(Zero, ret.q) /\ Leq(ret.q, Rat(65535))))

(***************************************************************************)
(* C18 amended: isInRange(q) is true exactly when 0 <= q < 65536, so the   *)
(* non-integers between 65535 and 65536 are in range and 65536 is not.     *)
(***************************************************************************)
C18_IsInRange ==
  call.op = "isInRange" =>
    (ret.inRange <=> (Leq(Zero, ret.q) /\ Less(ret.q, Rat(65536))))

C18_Witness ==
  /\ call = Call("isInRange", FALSE)
  /\ ret = [q |-> <<131071, 2>>, inRange |-> TRUE]

(***************************************************************************)
(* C21: a list built by the constructor, add, clear, reset and requantize  *)
(* alone holds only points consistent with its record: requantizing a      *)
(* stored point under the list's own record gives the point back, and the  *)
(* component is 0 on every axis of zero scale.  Stated as: every step      *)
(* other than a push keeps a consistent list consistent (a new list is     *)
(* empty).  One push of a valid point reaches a state where it fails.      *)
(***************************************************************************)
Consistent(p, prm) ==
  /\ Requantized(p, prm, prm) = p
  /\ \A a \in Axes : prm.scale[a] = Zero => p[a] = Zero

ConsistentList(h, l, prm) == \A i \in 1..Len(l) : Consistent(h[l[i]], prm)

AllConsistent == ConsistentList(qpts, list, ListParams)

C21_Consistency ==
  [][(AllConsistent /\ call'.op # "push") =>
       \A h \in {qpts'} : \A l \in {list'} : \A prm \in {recs'[params']} :
         ConsistentList(h, l, prm)]_vars

\* with assertions enabled, one push of a valid point into an empty list
\* whose record has zero scale on x leaves the list inconsistent
C21_Witness ==
  /\ assertionsEnabled
  /\ call = Call("push", FALSE)
  /\ Len(list) = 1
  /\ \A a \in Axes : IsGridInteger(Stored(1)[a])
  /\ ~AllConsistent

(***************************************************************************)
(* C22: requantize is idempotent: a second requantize(r) right after a     *)
(* requantize(r) changes no component of any point and leaves the record   *)
(* as it is.                                                               *)
(***************************************************************************)
C22_Idempotent ==
  [][\A rg \in Ranges :
       (/\ call = Call("requantize", FALSE)
        /\ ListParams = QParams_fromRange(rg)
        /\ RequantizeFromRange(rg)) =>
         /\ ~call'.threw
         /\ qpts' = qpts
         /\ list' = list
         /\ recs' = recs]_vars

\* two points, one of them pushed, were moved to a record with a negative
\* scale, and a component lies strictly inside the grid
C22_Witness ==
  /\ call = Call("requantize", FALSE)
  /\ Len(list) = 2
  /\ ListParams = QParams_fromRange(RangeC)
  /\ Stored(1) # Stored(2)
  /\ \E i \in 1..2 : Stored(i)[2] \notin {Zero, Rat(65535)}

(***************************************************************************)
(* C23: quantize is monotone in pos: for a fixed origin and a scale >= 0,  *)
(* pos1 <= pos2 implies quantize(pos1) <= quantize(pos2).                  *)
(***************************************************************************)
C23_Monotone ==
  \A a \in Axes : Leq(Zero, ListParams.scale[a]) =>
    \A pos1 \in Positions : \A pos2 \in Positions :
      Leq(pos1[a], pos2[a]) =>
        Leq(quantize(pos1[a], ListParams.origin[a], ListParams.scale[a]),
            quantize(pos2[a], ListParams.origin[a], ListParams.scale[a]))

\* two added points, strictly ordered on an axis of positive scale, whose
\* quantized components are strictly ordered the same way
C23_Witness ==
  /\ call = Call("add", FALSE)
  /\ Len(list) = 2
  /\ \E a \in Axes : \E pos1 \in Points : \E pos2 \in Points :
       /\ Less(Zero, ListParams.scale[a])
       /\ Less(pos1[a], pos2[a])
       /\ Stored(1)[a] = quantize(pos1[a], ListParams.origin[a], ListParams.scale[a])
       /\ Stored(2)[a] = quantize(pos2[a], ListParams.origin[a], ListParams.scale[a])
       /\ Less(Stored(1)[a], Stored(2)[a])

(***************************************************************************)
(* C24: for every integer index, negative ones included, list              *)
(* unquantize(index) returns the dequantized point stored at index, or     *)
(* takes the out-of-bounds path: the assertion when assertions are         *)
(* enabled, the out or default point otherwise.                            *)
(***************************************************************************)
C24_EveryIndex ==
  [][\A index \in Indexes \cup NegIndexes : \A out \in Outs :
       ListUnquantize(index, out) =>
         IF index \in 0..(Len(list) - 1)
           THEN /\ ~call'.threw
                /\ ret'.pt = QPoint_unquantize(Stored(index + 1), ListParams)
           ELSE IF assertionsEnabled
             THEN call'.threw /\ ret' = NoRet
             ELSE ~call'.threw /\ ret' = OutOrNew(out)]_vars

(***************************************************************************)
(* C25: a multi-component assignment writes x, y, z in that order and is   *)
(* not atomic: when setFromScalars throws, the assertion fired on the      *)
(* first component that is not an integer in [0, 65535]; the components    *)
(* before it hold their new values, that component and the later ones hold *)
(* their old values.  fromScalars that throws leaves the caller's point as *)
(* it was (the partly assigned point is the new one), and init, which      *)
(* assigns quantized values, never throws and assigns every component.     *)
(***************************************************************************)
FirstBad(vs, k) ==
  /\ ~IsGridInteger(vs[k])
  /\ \A a \in 1..(k - 1) : IsGridInteger(vs[a])

C25_NotAtomic ==
  [][/\ \A vs \in Scalars \cup CallerScalars :
          (SetFromScalars(vs) /\ call'.threw) =>
            \E k \in Axes :
              /\ FirstBad(vs, k)
              /\ \A a \in 1..(k - 1) : qpts'[0][a] = vs[a]
              /\ \A a \in k..dim : qpts'[0][a] = qpts[0][a]
     /\ \A vs \in Scalars \cup CallerScalars :
          (FromScalars(vs) /\ call'.threw) => qpts' = qpts
     /\ \A pos \in Points : InitPoint(pos) =>
          /\ ~call'.threw
          /\ \A a \in Axes :
               qpts'[0][a] = quantize(pos[a], recs[0].origin[a], recs[0].scale[a])]_vars

\* setFromScalars(3, 65536, 4) has just thrown on a 3D point that held
\* (7, 65535, 65535): x is new, y and z are old
C25_Witness ==
  /\ dim = 3
  /\ assertionsEnabled
  /\ call = Call("setFromScalars", TRUE)
  /\ qpts[0] = <<Rat(3), Rat(65535), Rat(65535)>>

====
